---- MODULE Spec2Model ----
(***************************************************************************)
(* Presence and room-delivery core of the LinguaFlow chat server           *)
(* (server.js, Socket.IO handlers) together with the client helpers that   *)
(* issue user ids (generateUserId) and room ids (buildRoomId).             *)
(*                                                                         *)
(* Strings are sequences of one-character strings, so that sorting,        *)
(* joining and splitting are computed character by character.  The JS      *)
(* value undefined is the one-element sequence <<"undefined">>, which no   *)
(* string of characters equals.                                            *)
(*                                                                         *)
(* Every Socket.IO handler runs to completion on the single event loop, so *)
(* each handler is one action.  An exception thrown by a handler is not    *)
(* caught anywhere in server.js; `raised` records it and `up` records that *)
(* the Node process is gone afterwards.                                    *)
(***************************************************************************)
EXTENDS Naturals, Sequences, FiniteSets

\* ------------------------------------------------------------------ bounds
MaxConns == 3
MaxEvents == 6
MaxEmailLen == 2

\* ------------------------------------------------------------- JS values
Undefined == <<"undefined">>

Truthy(v) == v # Undefined /\ v # <<>>

Separator == <<"_", "_">>

\* UTF-16 code units of the characters that occur (Array.prototype.sort
\* without a comparator orders strings by code unit).
CharCode(ch) ==
  CASE ch = "-" -> 45
    [] ch = "@" -> 64
    [] ch = "A" -> 65
    [] ch = "B" -> 66
    [] ch = "_" -> 95
    [] ch = "a" -> 97
    [] ch = "b" -> 98
    [] ch = "e" -> 101
    [] ch = "r" -> 114
    [] ch = "s" -> 115
    [] ch = "u" -> 117
    [] OTHER -> 0

RECURSIVE StrLess(_, _)
StrLess(s, t) ==
  IF t = <<>> THEN FALSE
  ELSE IF s = <<>> THEN TRUE
  ELSE IF Head(s) = Head(t) THEN StrLess(Tail(s), Tail(t))
  ELSE CharCode(Head(s)) < CharCode(Head(t))

\* ------------------------------------------------------ identity issuance
ToLowerCase(ch) ==
  CASE ch = "A" -> "a"
    [] ch = "B" -> "b"
    [] OTHER -> ch

LowerAlnum == {"a", "b", "e", "r", "s", "u"}

generateUserIdKeepUnderscore(email) ==
  <<"u", "s", "e", "r", "-">> \o
  [i \in 1..Len(email) |->
     IF ToLowerCase(email[i]) \in LowerAlnum \cup {"_"}
     THEN ToLowerCase(email[i]) ELSE "-"]

generateUserId(email) ==
  <<"u", "s", "e", "r", "-">> \o
  [i \in 1..Len(email) |->
     IF ToLowerCase(email[i]) \in LowerAlnum THEN ToLowerCase(email[i]) ELSE "-"]

\* ------------------------------------------------------------- room ids
buildRoomIdUnsorted(userA, userB) == userA \o Separator \o userB

buildRoomId(userA, userB) ==
  IF StrLess(userB, userA)
  THEN userB \o Separator \o userA
  ELSE userA \o Separator \o userB

\* String.prototype.split("__"): leftmost, non-overlapping separators.
RECURSIVE SplitFrom(_, _)
SplitFrom(s, piece) ==
  IF s = <<>> THEN <<piece>>
  ELSE IF Len(s) >= 2 /\ s[1] = "_" /\ s[2] = "_"
       THEN <<piece>> \o SplitFrom(SubSeq(s, 3, Len(s)), <<>>)
       ELSE SplitFrom(Tail(s), Append(piece, Head(s)))

Split(s) == SplitFrom(s, <<>>)

\* ------------------------------------------------------- server state
VARIABLES
  status,          \* per connection: "fresh" | "open" | "closed"; the open ones are io.sockets.sockets
  rooms,           \* socket.rooms of every connection
  connectedUsers,  \* Map<userId, {socketId, userInfo}> as a set of [key, val] entries
  userSockets,     \* Map<socketId, userId> as a set of [key, val] entries
  up,              \* the Node process is running
  raised,          \* the last handler threw
  last,            \* the last event handled: [type, conn, arg]
  pre,             \* registry and membership as they were when `last` arrived
  events,          \* number of events handled so far
  out              \* what the last handler emitted, in order: [to, event, payload]

\* ------------------------------------------- room-id round trip state
VARIABLES pc, emailA, emailB, userA, userB, roomAB, roomBA, parts

svars == <<status, rooms, connectedUsers, userSockets, up, raised, last, pre, events, out>>
rvars == <<pc, emailA, emailB, userA, userB, roomAB, roomBA, parts>>
\* AI proxy endpoints: one request, its upstream outcome and what was sent.
VARIABLES ppc, endpoint, upstream, responses, escaped

\* The client's SocketProvider: React state, refs, what the last call or
\* callback emitted, and the call or callback itself with the state before.
VARIABLES user, socketRef, isConnected, onlineUsers, messages,
          currentRoomRef, unreadCounts, sent, clast, cpre

pvars == <<ppc, endpoint, upstream, responses, escaped>>
cvars == <<user, socketRef, isConnected, onlineUsers, messages,
           currentRoomRef, unreadCounts, sent, clast, cpre>>
xvars == <<pvars, cvars>>

\* The transport between the provider's socket and the server: the id of the
\* server-side socket the provider's socket is connected to (0: none), the
\* events the provider emitted that the server has not handled yet, and the
\* events the server emitted to that socket that no listener has run for yet.
VARIABLES socketId, wire, inbox

lvars == <<socketId, wire, inbox>>
vars == <<svars, rvars, xvars, lvars>>

NoBody == [form |-> "none", fields |-> {}]
NoUpstream == [kind |-> "none", status |-> 0, body |-> NoBody]

ProxyIdle ==
  /\ ppc = "idle"
  /\ endpoint = "none"
  /\ upstream = NoUpstream
  /\ responses = <<>>
  /\ escaped = FALSE

Conns == 1..MaxConns

\* The accounts that log in: ids are issued by generateUserId at login.
Alice == generateUserId(<<"a">>)

Bob == generateUserId(<<"B">>)

Users == {Alice, Bob}

Names == {<<"A">>}

\* The conversations Alice can open: with Bob, and with herself.
RoomIds == {buildRoomId(Alice, b) : b \in Users}

\* null of a ref or of a state holding an id
NoUser == <<"null">>

NoRoom == <<"null">>

ClientState ==
  [user |-> user, socketRef |-> socketRef, isConnected |-> isConnected,
   onlineUsers |-> onlineUsers, messages |-> messages,
   currentRoomRef |-> currentRoomRef, unreadCounts |-> unreadCounts]

\* The provider as mounted: no user, no socket, empty lists.
ClientIdle ==
  /\ user = NoUser
  /\ socketRef = "null"
  /\ isConnected = FALSE
  /\ onlineUsers = <<>>
  /\ messages = <<>>
  /\ currentRoomRef = NoRoom
  /\ unreadCounts = [r \in RoomIds |-> 0]
  /\ sent = <<>>
  /\ clast = [op |-> "mount", arg |-> Undefined]
  /\ cpre = ClientState
  /\ socketId = 0
  /\ wire = <<>>
  /\ inbox = <<>>

\* ------------------------------------------------------------ JS Map
MapHas(m, k) == \E e \in m : e.key = k

MapGet(m, k) == (CHOOSE e \in m : e.key = k).val

MapGetOr(m, k, default) == IF MapHas(m, k) THEN MapGet(m, k) ELSE default

MapSetKeepOld(m, k, v) == m \cup {[key |-> k, val |-> v]}

MapSet(m, k, v) == {e \in m : e.key # k} \cup {[key |-> k, val |-> v]}

MapDelete(m, k) == {e \in m : e.key # k}

\* ------------------------------------------------------- event payloads
\* A user:join payload is a string (the id itself), an object, or null.
StringPayload(str) == [type |-> "string", str |-> str, id |-> Undefined, name |-> Undefined]

ObjectPayload(id, name) == [type |-> "object", str |-> Undefined, id |-> id, name |-> name]

Null == [type |-> "null", str |-> Undefined, id |-> Undefined, name |-> Undefined]

\* userData?.userInfo when there is no userData
NoInfo == [type |-> "undefined", str |-> Undefined, id |-> Undefined, name |-> Undefined]

JoinPayloads ==
  {StringPayload(Bob)}
    \cup {ObjectPayload(u, n) : u \in Users \cup {Undefined}, n \in Names}
    \cup {Null}

Messages ==
  [id : {<<"m">>}, roomId : RoomIds \cup {Undefined}, chatId : {Undefined},
   senderId : Users, content : {<<"h">>}]
    \cup [id : {<<"m">>}, roomId : {Undefined}, chatId : {buildRoomId(Alice, Bob)},
          senderId : {Alice}, content : {<<"h">>}]

\* ------------------------------------------------- Socket.IO primitives
Sockets == {c \in Conns : status[c] = "open"}

RoomMembers(room) == {c \in Sockets : room \in rooms[c]}

Emit(targets, event, payload) ==
  IF targets = {} THEN <<>> ELSE <<[to |-> targets, event |-> event, payload |-> payload]>>

Snapshot ==
  [connectedUsers |-> connectedUsers, userSockets |-> userSockets,
   rooms |-> rooms, status |-> status]

\* Bookkeeping common to all handlers: the event is taken off the wire.
Handle(type, c, arg) ==
  /\ up
  /\ events < MaxEvents
  /\ events' = events + 1
  /\ last' = [type |-> type, conn |-> c, arg |-> arg]
  /\ pre' = Snapshot

\* What the listeners of socket c are handed, in order, out of what a
\* handler emitted.
ForSocket(emissions, c) ==
  LET mine == SelectSeq(emissions, LAMBDA e : c \in e.to)
  IN [i \in 1..Len(mine) |-> [event |-> mine[i].event, payload |-> mine[i].payload]]

\* The transport's side of a handler run: a connection that opens while the
\* provider's socket is connecting is that socket's; an event of the
\* provider's socket leaves the wire; what the handler emitted to the
\* provider's socket is queued for its listeners.
ServerLink(type, c) ==
  /\ socketId' = IF type = "connection" /\ socketRef = "connecting" /\ socketId = 0
                 THEN c ELSE socketId
  /\ wire' = IF c = socketId /\ type \notin {"connection", "disconnect"}
             THEN Tail(wire) ELSE wire
  /\ inbox' = IF socketId = 0 THEN inbox ELSE inbox \o ForSocket(out', socketId)

\* ------------------------------------------------------------- handlers
getOnlineUsersList(users, excludeUserId) ==
  {[id |-> e.key, name |-> e.val.userInfo.name] :
     e \in {x \in users : x.key # excludeUserId /\ x.val.userInfo # Null}}

Init ==
  /\ status = [c \in Conns |-> "fresh"]
  /\ rooms = [c \in Conns |-> {}]
  /\ connectedUsers = {}
  /\ userSockets = {}
  /\ up = TRUE
  /\ raised = FALSE
  /\ last = [type |-> "start", conn |-> 0, arg |-> Undefined]
  /\ pre = [connectedUsers |-> {}, userSockets |-> {},
            rooms |-> [c \in Conns |-> {}], status |-> [c \in Conns |-> "fresh"]]
  /\ events = 0
  /\ out = <<>>
  /\ pc = "idle"
  /\ emailA = <<>> /\ emailB = <<>>
  /\ userA = <<>> /\ userB = <<>>
  /\ roomAB = <<>> /\ roomBA = <<>>
  /\ parts = <<>>
  /\ ProxyIdle
  /\ ClientIdle

\* What user:join emits, in order.  The earlier revision of the handler
\* announced with io.emit before sending the roster.
JoinEmissionsOnlineFirst(c, users, userId, userInfo) ==
  Emit(Sockets, "user:online", [userId |-> userId, isOnline |-> TRUE, userInfo |-> userInfo])
    \o Emit({c}, "users:list", getOnlineUsersList(users, userId))

JoinEmissionsRosterToAll(c, users, userId, userInfo) ==
  Emit(Sockets, "users:list", getOnlineUsersList(users, userId))
    \o Emit(Sockets \ {c}, "user:online",
            [userId |-> userId, isOnline |-> TRUE, userInfo |-> userInfo])

JoinEmissions(c, users, userId, userInfo) ==
  Emit({c}, "users:list", getOnlineUsersList(users, userId))
    \o Emit(Sockets \ {c}, "user:online",
            [userId |-> userId, isOnline |-> TRUE, userInfo |-> userInfo])

\* io.on('connection'): the transport hands over a socket with a fresh id.
Connection(c) ==
  /\ status[c] = "fresh"
  /\ \A d \in Conns : d < c => status[d] # "fresh"
  /\ Handle("connection", c, Undefined)
  /\ status' = [status EXCEPT ![c] = "open"]
  /\ out' = <<>>
  /\ raised' = FALSE
  /\ UNCHANGED <<rooms, connectedUsers, userSockets, up, rvars, xvars>>
  /\ ServerLink("connection", c)

UserJoin(c, userData) ==
  /\ status[c] = "open"
  /\ Handle("user:join", c, userData)
  /\ IF userData = Null
     THEN \* TypeError reading userData.id
          /\ raised' = TRUE
          /\ up' = FALSE
          /\ out' = <<>>
          /\ UNCHANGED <<connectedUsers, userSockets>>
     ELSE LET userId == IF userData.type = "string" THEN userData.str ELSE userData.id
              userInfo == IF userData.type = "string" THEN Null ELSE userData
              users == MapSet(connectedUsers, userId, [socketId |-> c, userInfo |-> userInfo])
          IN /\ connectedUsers' = users
             /\ userSockets' = MapSet(userSockets, c, userId)
             /\ out' = JoinEmissions(c, users, userId, userInfo)
             /\ raised' = FALSE
             /\ up' = TRUE
  /\ UNCHANGED <<status, rooms, rvars, xvars>>
  /\ ServerLink("user:join", c)

ChatJoinSingleRoom(c, chatId) ==
  /\ status[c] = "open"
  /\ Handle("chat:join", c, chatId)
  /\ rooms' = [rooms EXCEPT ![c] = {chatId}]
  /\ out' = <<>>
  /\ raised' = FALSE
  /\ UNCHANGED <<status, connectedUsers, userSockets, up, rvars, xvars>>
  /\ ServerLink("chat:join", c)

ChatJoin(c, chatId) ==
  /\ status[c] = "open"
  /\ Handle("chat:join", c, chatId)
  /\ rooms' = [rooms EXCEPT ![c] = @ \cup {chatId}]
  /\ out' = <<>>
  /\ raised' = FALSE
  /\ UNCHANGED <<status, connectedUsers, userSockets, up, rvars, xvars>>
  /\ ServerLink("chat:join", c)

ChatLeave(c, chatId) ==
  /\ status[c] = "open"
  /\ Handle("chat:leave", c, chatId)
  /\ rooms' = [rooms EXCEPT ![c] = @ \ {chatId}]
  /\ out' = <<>>
  /\ raised' = FALSE
  /\ UNCHANGED <<status, connectedUsers, userSockets, up, rvars, xvars>>
  /\ ServerLink("chat:leave", c)

\* The sockets the direct-delivery loop emits to for one participant id.
DirectTargetsIgnoringRoom(uid, senderId, roomId) ==
  IF uid # senderId /\ MapHas(connectedUsers, uid)
  THEN {MapGet(connectedUsers, uid).socketId} \cap Sockets
  ELSE {}

DirectTargetsOnlyJoined(uid, senderId, roomId) ==
  IF uid # senderId /\ MapHas(connectedUsers, uid)
  THEN LET recipientData == MapGet(connectedUsers, uid)
       IN {s \in {recipientData.socketId} \cap Sockets : roomId \in rooms[s]}
  ELSE {}

DirectTargetsToSender(uid, senderId, roomId) ==
  IF uid = senderId /\ MapHas(connectedUsers, uid)
  THEN LET recipientData == MapGet(connectedUsers, uid)
       IN {s \in {recipientData.socketId} \cap Sockets : roomId \notin rooms[s]}
  ELSE {}

DirectTargetsAllSockets(uid, senderId, roomId) ==
  IF uid # senderId
  THEN {s \in Sockets : MapGetOr(userSockets, s, Undefined) = uid /\ roomId \notin rooms[s]}
  ELSE {}

DirectTargets(uid, senderId, roomId) ==
  IF uid # senderId /\ MapHas(connectedUsers, uid)
  THEN LET recipientData == MapGet(connectedUsers, uid)
       IN {s \in {recipientData.socketId} \cap Sockets : roomId \notin rooms[s]}
  ELSE {}

RECURSIVE DirectDeliveries(_, _, _)
DirectDeliveries(userIds, roomId, message) ==
  IF userIds = <<>> THEN <<>>
  ELSE Emit(DirectTargets(Head(userIds), message.senderId, roomId), "message:receive", message)
         \o DirectDeliveries(Tail(userIds), roomId, message)

MessageSendJoinsRoom(c, message) ==
  /\ status[c] = "open"
  /\ Handle("message:send", c, message)
  /\ LET roomId == IF Truthy(message.roomId) THEN message.roomId ELSE message.chatId
         broadcast == Emit(RoomMembers(roomId) \ {c}, "message:receive", message)
     IN IF roomId = Undefined
        THEN \* TypeError calling roomId.split, after the broadcast
             /\ raised' = TRUE
             /\ up' = FALSE
             /\ out' = broadcast
        ELSE /\ raised' = FALSE
             /\ up' = TRUE
             /\ out' = broadcast \o DirectDeliveries(Split(roomId), roomId, message)
  /\ rooms' = [rooms EXCEPT ![c] = @ \cup ({message.roomId} \cap RoomIds)]
  /\ UNCHANGED <<status, connectedUsers, userSockets, rvars, xvars>>
  /\ ServerLink("message:send", c)

MessageSend(c, message) ==
  /\ status[c] = "open"
  /\ Handle("message:send", c, message)
  /\ LET roomId == IF Truthy(message.roomId) THEN message.roomId ELSE message.chatId
         broadcast == Emit(RoomMembers(roomId) \ {c}, "message:receive", message)
     IN IF roomId = Undefined
        THEN \* TypeError calling roomId.split, after the broadcast
             /\ raised' = TRUE
             /\ up' = FALSE
             /\ out' = broadcast
        ELSE /\ raised' = FALSE
             /\ up' = TRUE
             /\ out' = broadcast \o DirectDeliveries(Split(roomId), roomId, message)
  /\ UNCHANGED <<status, rooms, connectedUsers, userSockets, rvars, xvars>>
  /\ ServerLink("message:send", c)

UserTypingToAll(c, data) ==
  /\ status[c] = "open"
  /\ Handle("user:typing", c, data)
  /\ out' = Emit(Sockets \ {c}, "user:typing", data)
  /\ raised' = FALSE
  /\ UNCHANGED <<status, rooms, connectedUsers, userSockets, up, rvars, xvars>>
  /\ ServerLink("user:typing", c)

UserTyping(c, data) ==
  /\ status[c] = "open"
  /\ Handle("user:typing", c, data)
  /\ out' = Emit(RoomMembers(data.chatId) \ {c}, "user:typing", data)
  /\ raised' = FALSE
  /\ UNCHANGED <<status, rooms, connectedUsers, userSockets, up, rvars, xvars>>
  /\ ServerLink("user:typing", c)

MessageRead(c, data) ==
  /\ status[c] = "open"
  /\ Handle("message:read", c, data)
  /\ out' = Emit(RoomMembers(data.chatId), "message:read", data)
  /\ raised' = FALSE
  /\ UNCHANGED <<status, rooms, connectedUsers, userSockets, up, rvars, xvars>>
  /\ ServerLink("message:read", c)

\* The transport closes the socket: it has left every room and is out of
\* io.sockets.sockets when the 'disconnect' handler runs.
DisconnectKeepRooms(c) ==
  /\ status[c] = "open"
  /\ Handle("disconnect", c, Undefined)
  /\ status' = [status EXCEPT ![c] = "closed"]
  /\ rooms' = rooms
  /\ raised' = FALSE
  /\ LET userId == MapGetOr(userSockets, c, Undefined)
     IN IF Truthy(userId)
        THEN LET userInfo == IF MapHas(connectedUsers, userId)
                             THEN MapGet(connectedUsers, userId).userInfo ELSE NoInfo
             IN /\ connectedUsers' = MapDelete(connectedUsers, userId)
                /\ userSockets' = MapDelete(userSockets, c)
                /\ out' = Emit(Sockets \ {c}, "user:offline",
                               [userId |-> userId, isOnline |-> FALSE, userInfo |-> userInfo])
        ELSE /\ out' = <<>>
             /\ UNCHANGED <<connectedUsers, userSockets>>
  /\ UNCHANGED <<up, rvars, xvars>>
  /\ ServerLink("disconnect", c)

DisconnectAlwaysAnnounce(c) ==
  /\ status[c] = "open"
  /\ Handle("disconnect", c, Undefined)
  /\ status' = [status EXCEPT ![c] = "closed"]
  /\ rooms' = [rooms EXCEPT ![c] = {}]
  /\ raised' = FALSE
  /\ LET userId == MapGetOr(userSockets, c, Undefined)
     IN IF TRUE
        THEN LET userInfo == IF MapHas(connectedUsers, userId)
                             THEN MapGet(connectedUsers, userId).userInfo ELSE NoInfo
             IN /\ connectedUsers' = MapDelete(connectedUsers, userId)
                /\ userSockets' = MapDelete(userSockets, c)
                /\ out' = Emit(Sockets \ {c}, "user:offline",
                               [userId |-> userId, isOnline |-> FALSE, userInfo |-> userInfo])
        ELSE /\ out' = <<>>
             /\ UNCHANGED <<connectedUsers, userSockets>>
  /\ UNCHANGED <<up, rvars, xvars>>
  /\ ServerLink("disconnect", c)

Disconnect(c) ==
  /\ status[c] = "open"
  /\ Handle("disconnect", c, Undefined)
  /\ status' = [status EXCEPT ![c] = "closed"]
  /\ rooms' = [rooms EXCEPT ![c] = {}]
  /\ raised' = FALSE
  /\ LET userId == MapGetOr(userSockets, c, Undefined)
     IN IF Truthy(userId)
        THEN LET userInfo == IF MapHas(connectedUsers, userId)
                             THEN MapGet(connectedUsers, userId).userInfo ELSE NoInfo
             IN /\ connectedUsers' = MapDelete(connectedUsers, userId)
                /\ userSockets' = MapDelete(userSockets, c)
                /\ out' = Emit(Sockets \ {c}, "user:offline",
                               [userId |-> userId, isOnline |-> FALSE, userInfo |-> userInfo])
        ELSE /\ out' = <<>>
             /\ UNCHANGED <<connectedUsers, userSockets>>
  /\ UNCHANGED <<up, rvars, xvars>>
  /\ ServerLink("disconnect", c)

TypingData == [chatId : {buildRoomId(Alice, Bob)}, userId : {Alice}, isTyping : {TRUE}]

ReadData == [chatId : {buildRoomId(Alice, Bob)}, messageId : {<<"m">>}, userId : {Bob}]

Next ==
  \/ \E c \in Conns : Connection(c)
  \/ \E c \in Conns, userData \in JoinPayloads : UserJoin(c, userData)
  \/ \E c \in Conns, chatId \in RoomIds : ChatJoin(c, chatId)
  \/ \E c \in Conns, chatId \in RoomIds : ChatLeave(c, chatId)
  \/ \E c \in Conns, message \in Messages : MessageSend(c, message)
  \/ \E c \in Conns, data \in TypingData : UserTyping(c, data)
  \/ \E c \in Conns, data \in ReadData : MessageRead(c, data)
  \/ \E c \in Conns : Disconnect(c)

Spec == Init /\ [][Next]_vars

\* ------------------------------------------------- room-id round trip
\* Two accounts log in, each computes the room id of their conversation,
\* and the server decomposes it as message:send does.
EmailChars == {"a", "B", "_", "@"}

Emails == UNION {[1..n -> EmailChars] : n \in 0..MaxEmailLen}

RoomInit ==
  /\ status = [c \in Conns |-> "fresh"]
  /\ rooms = [c \in Conns |-> {}]
  /\ connectedUsers = {}
  /\ userSockets = {}
  /\ up = TRUE
  /\ raised = FALSE
  /\ last = [type |-> "start", conn |-> 0, arg |-> Undefined]
  /\ pre = [connectedUsers |-> {}, userSockets |-> {},
            rooms |-> [c \in Conns |-> {}], status |-> [c \in Conns |-> "fresh"]]
  /\ events = 0
  /\ out = <<>>
  /\ pc = "login"
  /\ emailA \in Emails /\ emailB \in Emails
  /\ userA = <<>> /\ userB = <<>>
  /\ roomAB = <<>> /\ roomBA = <<>>
  /\ parts = <<>>
  /\ ProxyIdle
  /\ ClientIdle

handleLogin ==
  /\ pc = "login"
  /\ userA' = generateUserId(emailA)
  /\ userB' = generateUserId(emailB)
  /\ pc' = "room"
  /\ UNCHANGED <<emailA, emailB, roomAB, roomBA, parts, svars, xvars, lvars>>

ComputeRoomIds ==
  /\ pc = "room"
  /\ roomAB' = buildRoomId(userA, userB)
  /\ roomBA' = buildRoomId(userB, userA)
  /\ pc' = "split"
  /\ UNCHANGED <<emailA, emailB, userA, userB, parts, svars, xvars, lvars>>

DecomposeRoomId ==
  /\ pc = "split"
  /\ parts' = Split(roomAB)
  /\ pc' = "done"
  /\ UNCHANGED <<emailA, emailB, userA, userB, roomAB, roomBA, svars, xvars, lvars>>

RoomNext == handleLogin \/ ComputeRoomIds \/ DecomposeRoomId

RoomIdSpec == RoomInit /\ [][RoomNext]_vars

\* ----------------------------------------------------------- AI proxy
\* The upstream answer as the handlers look at it: how the body text
\* parses, and which fields of the parsed object are present and truthy.
Statuses == {200, 404, 500}

BodyForms == {"text", "sse_bad", "sse", "json_null", "json_scalar", "json"}

FieldSets ==
  {{}, {"message"}, {"audio"}, {"text"}, {"translated_text"}, {"result"}, {"choices"}}

Bodies ==
  {[form |-> f, fields |-> {}] : f \in {"text", "sse_bad", "json_null", "json_scalar"}}
    \cup {[form |-> f, fields |-> fs] : f \in {"sse", "json"}, fs \in FieldSets}

Upstreams ==
  {[kind |-> "network_error", status |-> 0, body |-> NoBody]}
    \cup {[kind |-> "response", status |-> st, body |-> b] : st \in Statuses, b \in Bodies}

\* response.ok of fetch
ResponseOk(st) == st \in 200..299

Threw == [threw |-> TRUE, value |-> [kind |-> "none", fields |-> {}]]

Parsed(kind, fields) == [threw |-> FALSE, value |-> [kind |-> kind, fields |-> fields]]

\* JSON.parse(responseText)
JSONparse(body) ==
  CASE body.form = "json" -> Parsed("object", body.fields)
    [] body.form = "json_null" -> Parsed("null", {})
    [] body.form = "json_scalar" -> Parsed("scalar", {})
    [] OTHER -> Threw

\* responseText.match(/data:\s*(\{[\s\S]*\})/) followed by JSON.parse
SSEMatch(body) == body.form \in {"sse", "sse_bad"}

SSEparse(body) == IF body.form = "sse" THEN Parsed("object", body.fields) ELSE Threw

\* JSON.parse first, the SSE wrapper second; neither parsing is answered 500
ParseWithSSE(body) ==
  IF ~JSONparse(body).threw THEN JSONparse(body) ELSE SSEparse(body)

Failure(st) == [status |-> st, success |-> FALSE, message |-> TRUE, result |-> FALSE]

Success(hasResult) ==
  [status |-> 200, success |-> TRUE, message |-> FALSE, result |-> hasResult]

Sent(rs) == [threw |-> FALSE, sent |-> rs]

Raise == [threw |-> TRUE, sent |-> <<>>]

\* body of the try block of POST /api/tts
TtsTry(u) ==
  IF u.kind = "network_error" THEN Raise
  ELSE LET p == JSONparse(u.body) IN
    IF p.threw THEN Sent(<<Failure(500)>>)
    ELSE IF p.value.kind = "null" THEN Raise
    ELSE IF ~ResponseOk(u.status) THEN Sent(<<Failure(u.status)>>)
    ELSE Sent(<<Success("audio" \in p.value.fields)>>)

\* The !response.ok branch shared by /api/asr and /api/mt: the body is
\* parsed, or wrapped as {message: responseText} when it does not parse.
ErrorAnswer(u) ==
  IF ~JSONparse(u.body).threw /\ JSONparse(u.body).value.kind = "null"
  THEN Raise
  ELSE Sent(<<Failure(u.status)>>)

\* The text extraction shared by /api/asr and /api/mt after a 2xx answer.
ExtractAnswer(u, resultFields) ==
  LET p == ParseWithSSE(u.body) IN
    IF p.threw THEN Sent(<<Failure(500)>>)
    ELSE IF p.value.kind = "null" THEN Raise
    ELSE Sent(<<Success(p.value.fields \cap resultFields # {})>>)

AsrResultFields == {"text", "result", "choices"}

MtResultFields == {"translated_text", "text", "choices"}

\* body of the try block of POST /api/asr
AsrTry(u) ==
  IF u.kind = "network_error" THEN Raise
  ELSE IF ~ResponseOk(u.status) THEN ErrorAnswer(u)
  ELSE ExtractAnswer(u, AsrResultFields)

\* body of the try block of POST /api/mt
MtTry(u) ==
  IF u.kind = "network_error" THEN Raise
  ELSE IF ~ResponseOk(u.status) THEN ErrorAnswer(u)
  ELSE ExtractAnswer(u, MtResultFields)

\* try { ... } catch (error) { return res.status(500).json(...) }: a second
\* send on a response already sent raises out of the handler.
Handler(ep, t) ==
  /\ ppc = "request"
  /\ endpoint' = ep
  /\ responses' = IF t.threw /\ t.sent = <<>> THEN <<Failure(500)>> ELSE t.sent
  /\ escaped' = (t.threw /\ t.sent # <<>>)
  /\ ppc' = "done"
  /\ UNCHANGED <<upstream, svars, rvars, cvars, lvars>>

PostTts == Handler("tts", TtsTry(upstream))

PostAsr == Handler("asr", AsrTry(upstream))

PostMt == Handler("mt", MtTry(upstream))

\* The server before any connection, with no login under way.
ServerIdle ==
  /\ status = [c \in Conns |-> "fresh"]
  /\ rooms = [c \in Conns |-> {}]
  /\ connectedUsers = {}
  /\ userSockets = {}
  /\ up = TRUE
  /\ raised = FALSE
  /\ last = [type |-> "start", conn |-> 0, arg |-> Undefined]
  /\ pre = [connectedUsers |-> {}, userSockets |-> {},
            rooms |-> [c \in Conns |-> {}], status |-> [c \in Conns |-> "fresh"]]
  /\ events = 0
  /\ out = <<>>

RoomIdle ==
  /\ pc = "idle"
  /\ emailA = <<>> /\ emailB = <<>>
  /\ userA = <<>> /\ userB = <<>>
  /\ roomAB = <<>> /\ roomBA = <<>>
  /\ parts = <<>>

ProxyInit ==
  /\ ServerIdle
  /\ RoomIdle
  /\ ClientIdle
  /\ ppc = "request"
  /\ endpoint = "none"
  /\ upstream \in Upstreams
  /\ responses = <<>>
  /\ escaped = FALSE

ProxyNext == PostTts \/ PostAsr \/ PostMt

ProxySpec == ProxyInit /\ [][ProxyNext]_vars

\* ------------------------------------------------------- client provider
MaxUnread == 2

RosterEntry(id) == [id |-> id, name |-> <<"A">>]

RosterLists == {<<>>, <<RosterEntry(Bob)>>, <<RosterEntry(Bob), RosterEntry(Alice)>>}

OnlineEvents ==
  UNION {{[userId |-> u, isOnline |-> TRUE, userInfo |-> i] :
            i \in {ObjectPayload(u, <<"A">>), Null}} : u \in Users}

OfflineEvents ==
  {[userId |-> u, isOnline |-> FALSE, userInfo |-> ObjectPayload(u, <<"A">>)] : u \in Users}

MessageIds == {<<"m">>, <<"n">>}

ClientMessages ==
  [id : MessageIds, roomId : RoomIds, chatId : {Undefined},
   senderId : {Alice}, content : {<<"h">>}]

\* prev.some((x) => x.id === id)
HasId(list, id) == \E i \in 1..Len(list) : list[i].id = id

AddMessageNoDedupe(prev, msg) == Append(prev, msg)

\* setMessages((prev) => prev.some(...) ? prev : [...prev, msg])
AddMessage(prev, msg) == IF HasId(prev, msg.id) THEN prev ELSE Append(prev, msg)

ClientEmit(event, payload) == [event |-> event, payload |-> payload]

\* The transport's side of a call or callback: closing the socket or losing
\* the transport drops what was in flight; what was emitted goes on the wire;
\* a listener takes its event out of the inbox.
ClientLink(op) ==
  IF op \in {"login", "logout", "disconnect"}
  THEN /\ socketId' = 0
       /\ wire' = <<>>
       /\ inbox' = <<>>
  ELSE /\ socketId' = socketId
       /\ wire' = IF socketId # 0 THEN wire \o sent' ELSE wire
       /\ inbox' = IF socketId # 0 /\ op \in {"users:list", "user:online", "user:offline",
                                               "message:receive"}
                  THEN Tail(inbox) ELSE inbox

\* One call or callback of the provider; the server and the proxy stand still.
CStep(op, arg) ==
  /\ clast' = [op |-> op, arg |-> arg]
  /\ cpre' = ClientState
  /\ ClientLink(op)
  /\ UNCHANGED <<svars, rvars, pvars>>

\* login() with another user id: the effect's cleanup closes the socket of
\* the previous user (its disconnect listener runs if it was connected) and
\* the effect body opens a new one.
login(u) ==
  /\ u # user
  /\ user' = u
  /\ socketRef' = "connecting"
  /\ isConnected' = (IF socketRef = "connected" THEN FALSE ELSE isConnected)
  /\ sent' = <<>>
  /\ UNCHANGED <<onlineUsers, messages, currentRoomRef, unreadCounts>>
  /\ CStep("login", u)

logoutKeepMessages ==
  /\ user # NoUser
  /\ user' = NoUser
  /\ socketRef' = "null"
  /\ isConnected' = FALSE
  /\ onlineUsers' = <<>>
  /\ sent' = <<>>
  /\ UNCHANGED <<messages, currentRoomRef, unreadCounts>>
  /\ CStep("logout", Undefined)

\* logout(): setUser(null), then the effect's cleanup (socket.disconnect(),
\* socketRef.current = null) and the effect's !user branch, flushed with
\* the click that logged out.
logout ==
  /\ user # NoUser
  /\ user' = NoUser
  /\ socketRef' = "null"
  /\ isConnected' = FALSE
  /\ onlineUsers' = <<>>
  /\ messages' = <<>>
  /\ sent' = <<>>
  /\ UNCHANGED <<currentRoomRef, unreadCounts>>
  /\ CStep("logout", Undefined)

OnConnect ==
  /\ socketRef = "connecting"
  /\ socketRef' = "connected"
  /\ isConnected' = TRUE
  /\ sent' = <<ClientEmit("user:join", ObjectPayload(user, <<"A">>))>>
  /\ UNCHANGED <<user, onlineUsers, messages, currentRoomRef, unreadCounts>>
  /\ CStep("connect", Undefined)

\* the transport drops; socket.io-client goes back to connecting
OnDisconnect ==
  /\ socketRef = "connected"
  /\ socketRef' = "connecting"
  /\ isConnected' = FALSE
  /\ sent' = <<>>
  /\ UNCHANGED <<user, onlineUsers, messages, currentRoomRef, unreadCounts>>
  /\ CStep("disconnect", Undefined)

OnUsersList(users) ==
  /\ socketRef = "connected"
  /\ onlineUsers' = users
  /\ sent' = <<>>
  /\ UNCHANGED <<user, socketRef, isConnected, messages, currentRoomRef, unreadCounts>>
  /\ CStep("users:list", users)

OnUserOnline(data) ==
  /\ socketRef = "connected"
  /\ onlineUsers' =
       IF data.userInfo # Null /\ data.isOnline /\ ~HasId(onlineUsers, data.userInfo.id)
       THEN Append(onlineUsers, [id |-> data.userInfo.id, name |-> data.userInfo.name])
       ELSE onlineUsers
  /\ sent' = <<>>
  /\ UNCHANGED <<user, socketRef, isConnected, messages, currentRoomRef, unreadCounts>>
  /\ CStep("user:online", data)

OnUserOffline(data) ==
  /\ socketRef = "connected"
  /\ onlineUsers' = SelectSeq(onlineUsers, LAMBDA u : u.id # data.userId)
  /\ sent' = <<>>
  /\ UNCHANGED <<user, socketRef, isConnected, messages, currentRoomRef, unreadCounts>>
  /\ CStep("user:offline", data)

OnMessageReceiveCountsAll(msg) ==
  /\ socketRef = "connected"
  /\ TRUE => unreadCounts[msg.roomId] < MaxUnread
  /\ messages' = AddMessage(messages, msg)
  /\ unreadCounts' =
       IF TRUE
       THEN [unreadCounts EXCEPT ![msg.roomId] = @ + 1]
       ELSE unreadCounts
  /\ sent' = <<>>
  /\ UNCHANGED <<user, socketRef, isConnected, onlineUsers, currentRoomRef>>
  /\ CStep("message:receive", msg)

OnMessageReceive(msg) ==
  /\ socketRef = "connected"
  /\ msg.roomId # currentRoomRef => unreadCounts[msg.roomId] < MaxUnread
  /\ messages' = AddMessage(messages, msg)
  /\ unreadCounts' =
       IF msg.roomId # currentRoomRef
       THEN [unreadCounts EXCEPT ![msg.roomId] = @ + 1]
       ELSE unreadCounts
  /\ sent' = <<>>
  /\ UNCHANGED <<user, socketRef, isConnected, onlineUsers, currentRoomRef>>
  /\ CStep("message:receive", msg)

sendMessageNoLocalCopy(message) ==
  /\ IF socketRef = "connected"
     THEN /\ sent' = <<ClientEmit("message:send", message)>>
          /\ UNCHANGED messages
     ELSE /\ sent' = <<>>
          /\ UNCHANGED messages
  /\ UNCHANGED <<user, socketRef, isConnected, onlineUsers, currentRoomRef, unreadCounts>>
  /\ CStep("sendMessage", message)

sendMessage(message) ==
  /\ IF socketRef = "connected"
     THEN /\ sent' = <<ClientEmit("message:send", message)>>
          /\ messages' = AddMessage(messages, message)
     ELSE /\ sent' = <<>>
          /\ UNCHANGED messages
  /\ UNCHANGED <<user, socketRef, isConnected, onlineUsers, currentRoomRef, unreadCounts>>
  /\ CStep("sendMessage", message)

joinRoomKeepPrevious(roomId) ==
  /\ IF socketRef = "connected"
     THEN /\ sent' = <<ClientEmit("chat:join", roomId)>>
          /\ currentRoomRef' = roomId
          /\ unreadCounts' = [unreadCounts EXCEPT ![roomId] = 0]
     ELSE /\ sent' = <<>>
          /\ UNCHANGED <<currentRoomRef, unreadCounts>>
  /\ UNCHANGED <<user, socketRef, isConnected, onlineUsers, messages>>
  /\ CStep("joinRoom", roomId)

joinRoom(roomId) ==
  /\ IF socketRef = "connected"
     THEN /\ sent' =
               (IF currentRoomRef # NoRoom /\ currentRoomRef # roomId
                THEN <<ClientEmit("chat:leave", currentRoomRef)>> ELSE <<>>)
                 \o <<ClientEmit("chat:join", roomId)>>
          /\ currentRoomRef' = roomId
          /\ unreadCounts' = [unreadCounts EXCEPT ![roomId] = 0]
     ELSE /\ sent' = <<>>
          /\ UNCHANGED <<currentRoomRef, unreadCounts>>
  /\ UNCHANGED <<user, socketRef, isConnected, onlineUsers, messages>>
  /\ CStep("joinRoom", roomId)

leaveRoom(roomId) ==
  /\ IF socketRef = "connected"
     THEN /\ sent' = <<ClientEmit("chat:leave", roomId)>>
          /\ currentRoomRef' = (IF currentRoomRef = roomId THEN NoRoom ELSE currentRoomRef)
     ELSE /\ sent' = <<>>
          /\ UNCHANGED currentRoomRef
  /\ UNCHANGED <<user, socketRef, isConnected, onlineUsers, messages, unreadCounts>>
  /\ CStep("leaveRoom", roomId)

setTyping(roomId) ==
  /\ sent' = (IF socketRef = "connected" /\ user # NoUser
              THEN <<ClientEmit("user:typing", roomId)>> ELSE <<>>)
  /\ UNCHANGED <<user, socketRef, isConnected, onlineUsers, messages,
                 currentRoomRef, unreadCounts>>
  /\ CStep("setTyping", roomId)

markRoomRead(roomId) ==
  /\ unreadCounts' = [unreadCounts EXCEPT ![roomId] = 0]
  /\ sent' = <<>>
  /\ UNCHANGED <<user, socketRef, isConnected, onlineUsers, messages, currentRoomRef>>
  /\ CStep("markRoomRead", roomId)

ClientInit ==
  /\ ServerIdle
  /\ RoomIdle
  /\ ProxyIdle
  /\ ClientIdle

ClientNext ==
  \/ \E u \in Users : login(u)
  \/ logout
  \/ OnConnect
  \/ OnDisconnect
  \/ \E users \in RosterLists : OnUsersList(users)
  \/ \E data \in OnlineEvents : OnUserOnline(data)
  \/ \E data \in OfflineEvents : OnUserOffline(data)
  \/ \E msg \in ClientMessages : OnMessageReceive(msg)
  \/ \E message \in ClientMessages : sendMessage(message)
  \/ \E roomId \in RoomIds : joinRoom(roomId)
  \/ \E roomId \in RoomIds : leaveRoom(roomId)
  \/ \E roomId \in RoomIds : setTyping(roomId)
  \/ \E roomId \in RoomIds : markRoomRead(roomId)

ClientSpec == ClientInit /\ [][ClientNext]_vars

\* ------------------------------------- the provider against the server
\* One provider (Alice logs in) talks to the server over its socket while
\* the sockets of other providers open, register once (user:join is emitted
\* by the connect listener only) and close.

\* the provider's emits the server has not handled yet, at most
MaxWire == 1

\* The roster as the array users:list carries: the registry's values in the
\* Map's iteration order, of which the model takes one.
RECURSIVE RosterArray(_)
RosterArray(entries) ==
  IF entries = {} THEN <<>>
  ELSE LET e == CHOOSE x \in entries : TRUE
       IN <<e>> \o RosterArray(entries \ {e})

\* the server handles the next event the provider's socket emitted
FromWire ==
  /\ socketId # 0
  /\ wire # <<>>
  /\ LET e == Head(wire)
     IN \/ e.event = "user:join" /\ UserJoin(socketId, e.payload)
        \/ e.event = "chat:join" /\ ChatJoin(socketId, e.payload)
        \/ e.event = "chat:leave" /\ ChatLeave(socketId, e.payload)

\* the provider's listener runs for the next event the server sent it
FromInbox ==
  /\ inbox # <<>>
  /\ LET e == Head(inbox)
     IN \/ e.event = "users:list" /\ OnUsersList(RosterArray(e.payload))
        \/ e.event = "user:online" /\ OnUserOnline(e.payload)
        \/ e.event = "user:offline" /\ OnUserOffline(e.payload)

SessionInit ==
  /\ ServerIdle
  /\ RoomIdle
  /\ ProxyIdle
  /\ ClientIdle

SessionNext ==
  \/ login(Alice)
  \/ \E c \in Conns : Connection(c)
  \/ socketId # 0 /\ OnConnect
  \/ OnDisconnect
  \/ FromWire
  \/ FromInbox
  \/ \E roomId \in RoomIds : Len(wire) < MaxWire /\ joinRoom(roomId)
  \/ \E roomId \in RoomIds : Len(wire) < MaxWire /\ leaveRoom(roomId)
  \/ \E c \in Conns \ {socketId}, u \in Users :
       ~MapHas(userSockets, c) /\ UserJoin(c, ObjectPayload(u, <<"A">>))
  \/ \E c \in Conns : Disconnect(c)

SessionSpec == SessionInit /\ [][SessionNext]_vars

\* ========================================================== properties
\* Helpers for reading the emissions of the last handler.
Received(c, event) == {i \in 1..Len(out) : c \in out[i].to /\ out[i].event = event}

WasOpen(c) == pre.status[c] = "open"

\* The message:send just handled was for the room of users a and b, sent
\* as a from connection s; b was registered on the open connection cb.
SentToPeer(a, b, s, cb) ==
  /\ last.type = "message:send"
  /\ last.conn = s
  /\ last.arg.roomId = buildRoomId(a, b)
  /\ last.arg.senderId = a
  /\ a # b
  /\ MapHas(pre.connectedUsers, a)
  /\ MapGet(pre.connectedUsers, a).socketId = s
  /\ MapHas(pre.connectedUsers, b)
  /\ MapGet(pre.connectedUsers, b).socketId = cb
  /\ WasOpen(cb)

\* C1: when connection c1 closes while its user u is bound to another,
\* newer connection, u's binding is kept and no user:offline for u is sent.
C1_ReconnectRaceKeepsBinding ==
  \A u \in Users :
    ( /\ last.type = "disconnect"
      /\ MapGetOr(pre.userSockets, last.conn, Undefined) = u
      /\ MapHas(pre.connectedUsers, u)
      /\ MapGet(pre.connectedUsers, u).socketId # last.conn
      /\ status[MapGet(pre.connectedUsers, u).socketId] = "open" )
    => ( /\ MapHas(connectedUsers, u)
         /\ MapGet(connectedUsers, u) = MapGet(pre.connectedUsers, u)
         /\ \A i \in 1..Len(out) :
               ~(out[i].event = "user:offline" /\ out[i].payload.userId = u) )

\* C2: a message from A to room(A,B), with B registered on an open
\* connection that has not joined the room, reaches that connection exactly
\* once and unchanged.
C2_DirectDeliveryCoversGap ==
  \A a \in Users, b \in Users, s \in Conns, cb \in Conns :
    (SentToPeer(a, b, s, cb) /\ last.arg.roomId \notin pre.rooms[cb])
    => ( /\ Cardinality(Received(cb, "message:receive")) = 1
         /\ \A i \in Received(cb, "message:receive") : out[i].payload = last.arg )

C2_Witness ==
  \E a \in Users, b \in Users, s \in Conns, cb \in Conns :
    /\ SentToPeer(a, b, s, cb)
    /\ s # cb
    /\ last.arg.roomId \notin pre.rooms[cb]
    /\ Cardinality(Received(cb, "message:receive")) = 1

\* C3: with B's connection joined to room(A,B), a message from A's
\* connection reaches it exactly once, by the room broadcast, and no direct
\* delivery goes to a connection that is a member of the room.
C3_NoDoubleDelivery ==
  \A a \in Users, b \in Users, s \in Conns, cb \in Conns :
    (SentToPeer(a, b, s, cb) /\ s # cb /\ last.arg.roomId \in pre.rooms[cb])
    => ( /\ Cardinality(Received(cb, "message:receive")) = 1
         /\ out[1].to = {c \in Conns : WasOpen(c) /\ last.arg.roomId \in pre.rooms[c]} \ {s}
         /\ cb \in out[1].to
         /\ \A i \in 2..Len(out) :
               \A c \in out[i].to : last.arg.roomId \notin pre.rooms[c] )

C3_Witness ==
  \E a \in Users, b \in Users, s \in Conns, cb \in Conns :
    /\ SentToPeer(a, b, s, cb)
    /\ s # cb
    /\ last.arg.roomId \in pre.rooms[cb]
    /\ Cardinality(Received(cb, "message:receive")) = 1

\* C4: user:join sends users:list to the joining connection first, and
\* the user:online of that join never goes to the joining connection.
C4_JoinBeforeBroadcast ==
  (last.type = "user:join" /\ ~raised)
  => ( /\ Len(out) >= 1
       /\ out[1].event = "users:list"
       /\ out[1].to = {last.conn}
       /\ \A i \in 1..Len(out) :
             out[i].event = "user:online" => (i > 1 /\ last.conn \notin out[i].to) )

C4_Witness ==
  /\ last.type = "user:join"
  /\ Len(out) = 2
  /\ out[1].event = "users:list"
  /\ out[2].event = "user:online"
  /\ out[2].to # {}

\* C5: the registry never holds two entries for one user id, and a
\* user:join for a user bound to another connection rebinds the user to the
\* joining connection without raising.
C5_OneEntryPerUser ==
  /\ \A e1 \in connectedUsers, e2 \in connectedUsers : e1.key = e2.key => e1 = e2
  /\ \A u \in Users :
       ( /\ last.type = "user:join"
         /\ last.arg.type # "null"
         /\ (IF last.arg.type = "string" THEN last.arg.str ELSE last.arg.id) = u
         /\ MapHas(pre.connectedUsers, u) )
       => ( /\ ~raised
            /\ Cardinality({e \in connectedUsers : e.key = u}) = 1
            /\ \A e \in connectedUsers : e.key = u => e.val.socketId = last.conn )

C5_Witness ==
  \E u \in Users :
    /\ last.type = "user:join"
    /\ last.arg.type = "object"
    /\ last.arg.id = u
    /\ MapHas(pre.connectedUsers, u)
    /\ MapGet(pre.connectedUsers, u).socketId # last.conn
    /\ MapGet(connectedUsers, u).socketId = last.conn

\* C6: both participants compute the same room id.
C6_RoomIdSymmetric ==
  pc \in {"split", "done"} => roomAB = roomBA

C6_Witness ==
  /\ pc = "done"
  /\ StrLess(userB, userA)
  /\ roomAB = roomBA

\* C7: a closed connection is a member of no room and nothing is emitted
\* to it.
C7_DisconnectCleansMembership ==
  \A c \in Conns :
    status[c] = "closed"
    => ( /\ rooms[c] = {}
         /\ \A i \in 1..Len(out) : c \notin out[i].to )

C7_Witness ==
  /\ last.type = "disconnect"
  /\ pre.rooms[last.conn] # {}
  /\ rooms[last.conn] = {}

\* C8: when the other participant of the room is not in the registry, the
\* handler emits nothing but the room broadcast and does not raise; and a
\* message:receive is only ever emitted by the message:send that carried it.
C8_OfflineRecipientDropped ==
  /\ \A a \in Users, b \in Users :
       ( /\ last.type = "message:send"
         /\ last.arg.roomId = buildRoomId(a, b)
         /\ last.arg.senderId = a
         /\ a # b
         /\ ~MapHas(pre.connectedUsers, b) )
       => ( /\ ~raised
            /\ \A i \in 1..Len(out) :
                 /\ i = 1
                 /\ out[i].to \subseteq
                      {c \in Conns : WasOpen(c) /\ last.arg.roomId \in pre.rooms[c]} \ {last.conn} )
  /\ \A i \in 1..Len(out) :
       out[i].event = "message:receive"
       => (last.type = "message:send" /\ out[i].payload = last.arg)

C8_Witness ==
  \E a \in Users, b \in Users :
    /\ last.type = "message:send"
    /\ last.arg.roomId = buildRoomId(a, b)
    /\ last.arg.senderId = a
    /\ a # b
    /\ MapHas(pre.connectedUsers, a)
    /\ MapGet(pre.connectedUsers, a).socketId = last.conn
    /\ ~MapHas(pre.connectedUsers, b)
    /\ out = <<>>
    /\ ~raised

\* C9: a user:join object without an id registers nothing and announces
\* nothing.
C9_JoinWithoutIdNotRegistered ==
  ( /\ last.type = "user:join"
    /\ last.arg.type = "object"
    /\ last.arg.id = Undefined )
  => ( /\ connectedUsers = pre.connectedUsers
       /\ userSockets = pre.userSockets
       /\ \A i \in 1..Len(out) : out[i].event # "user:online" )

\* C10: a message:send with neither roomId nor chatId emits nothing,
\* changes nothing, does not raise and leaves the server running.
C10_MalformedSendDropped ==
  ( /\ last.type = "message:send"
    /\ ~Truthy(last.arg.roomId)
    /\ ~Truthy(last.arg.chatId) )
  => ( /\ out = <<>>
       /\ connectedUsers = pre.connectedUsers
       /\ userSockets = pre.userSockets
       /\ rooms = pre.rooms
       /\ ~raised
       /\ up )

\* The id a user:join payload registers.
JoinedId(userData) == IF userData.type = "string" THEN userData.str ELSE userData.id

\* C11: when the connection a user is bound to closes, the user's entry is
\* removed and every remaining connection gets exactly one user:offline
\* with the user's id and the profile of the entry.
C11_BoundConnectionCloseAnnounced ==
  \A u \in Users :
    ( /\ last.type = "disconnect"
      /\ MapHas(pre.connectedUsers, u)
      /\ MapGet(pre.connectedUsers, u).socketId = last.conn )
    => ( /\ ~MapHas(connectedUsers, u)
         /\ \A d \in Sockets :
              /\ Cardinality(Received(d, "user:offline")) = 1
              /\ \A i \in Received(d, "user:offline") :
                   /\ out[i].payload.userId = u
                   /\ out[i].payload.userInfo = MapGet(pre.connectedUsers, u).userInfo )

C13_RosterIsRegistryMinusSelf ==
  (last.type = "user:join" /\ ~raised)
  => \A i \in Received(last.conn, "users:list") :
       /\ {r.id : r \in out[i].payload} =
            {e.key : e \in connectedUsers} \ {JoinedId(last.arg)}
       /\ \A r1 \in out[i].payload, r2 \in out[i].payload : r1.id = r2.id => r1 = r2

\* C14: after a connection has closed, no registry entry is bound to it and
\* the reverse index has no entry for it.
C14_ClosedConnectionUnbound ==
  \A c \in Conns :
    status[c] = "closed"
    => ( /\ \A e \in connectedUsers : e.val.socketId # c
         /\ ~MapHas(userSockets, c) )

\* C15 as stated: a message:send whose senderId is the sending connection's
\* registered user never comes back to the sending connection.
C15_SenderNeverReceives ==
  ( /\ last.type = "message:send"
    /\ last.arg.senderId = MapGetOr(pre.userSockets, last.conn, Undefined) )
  => Received(last.conn, "message:receive") = {}

\* Another participant id of the room is bound to connection s.
PeerBoundTo(s, roomId, senderId) ==
  \E uid \in Users :
    /\ uid # senderId
    /\ \E k \in 1..Len(Split(roomId)) : Split(roomId)[k] = uid
    /\ MapHas(pre.connectedUsers, uid)
    /\ MapGet(pre.connectedUsers, uid).socketId = s

\* C15, the part that holds: the sending connection gets no copy of its own
\* message, joined to the room or not, when no other participant id of the
\* room is bound to that same connection; for the self-chat room nothing is
\* sent to the sender.
C15_SenderReceivesOnlyAsPeer ==
  ( /\ last.type = "message:send"
    /\ Truthy(last.arg.roomId)
    /\ last.arg.senderId = MapGetOr(pre.userSockets, last.conn, Undefined)
    /\ ~PeerBoundTo(last.conn, last.arg.roomId, last.arg.senderId) )
  => Received(last.conn, "message:receive") = {}

C15_Witness ==
  /\ last.type = "message:send"
  /\ last.arg.roomId = buildRoomId(Alice, Alice)
  /\ last.arg.senderId = Alice
  /\ MapGetOr(pre.userSockets, last.conn, Undefined) = Alice
  /\ MapHas(pre.connectedUsers, Alice)
  /\ MapGet(pre.connectedUsers, Alice).socketId = last.conn
  /\ last.arg.roomId \notin pre.rooms[last.conn]
  /\ out = <<>>

\* C16: message:send, user:typing and message:read leave the registry, the
\* open connections and every connection's membership as they were.
C16_RelayKeepsNoState ==
  last.type \in {"message:send", "user:typing", "message:read"}
  => ( /\ connectedUsers = pre.connectedUsers
       /\ userSockets = pre.userSockets
       /\ rooms = pre.rooms
       /\ status = pre.status )

C16_Witness ==
  /\ last.type = "message:send"
  /\ out # <<>>
  /\ connectedUsers # {}
  /\ rooms = pre.rooms
  /\ \E c \in Conns : rooms[c] # {}

\* C17: chat:join adds the room and keeps the rooms already joined;
\* chat:leave removes the named room only and changes nothing when the
\* connection is not in it; neither raises nor touches other connections.
C17_JoinAddsLeaveRemoves ==
  /\ last.type = "chat:join"
     => ( /\ rooms = [pre.rooms EXCEPT ![last.conn] = @ \cup {last.arg}]
          /\ ~raised )
  /\ last.type = "chat:leave"
     => ( /\ rooms = [pre.rooms EXCEPT ![last.conn] = @ \ {last.arg}]
          /\ (last.arg \notin pre.rooms[last.conn] => rooms = pre.rooms)
          /\ ~raised )

C17_Witness ==
  /\ last.type = "chat:join"
  /\ pre.rooms[last.conn] # {}
  /\ last.arg \notin pre.rooms[last.conn]
  /\ Cardinality(rooms[last.conn]) = 2

\* C18: splitting the room id of two issued user ids on the separator gives
\* back exactly those two ids.
C18_SplitInvertsBuildRoomId ==
  pc = "done"
  => ( /\ Len(parts) = 2
       /\ {parts[1], parts[2]} = {userA, userB}
       /\ roomAB = parts[1] \o Separator \o parts[2] )

C18_Witness ==
  /\ pc = "done"
  /\ emailA = <<"_", "_">>
  /\ userA # userB
  /\ parts = <<userA, userB>>

\* The answer the endpoint exists to give: a parsed object carrying the
\* endpoint's result field.
WellFormed(ep, body) ==
  /\ body.form \in (IF ep = "tts" THEN {"json"} ELSE {"json", "sse"})
  /\ body.fields \cap (CASE ep = "tts" -> {"audio"}
                         [] ep = "asr" -> AsrResultFields
                         [] OTHER -> MtResultFields) # {}

UpstreamFailed(ep, u) ==
  \/ u.kind = "network_error"
  \/ u.status # 200
  \/ ~WellFormed(ep, u.body)

\* C19: every proxy handler sends exactly one response and raises nothing,
\* and answers {success:false, message} whenever the upstream outcome is a
\* network error, a non-200 status or a malformed payload.
C19_UpstreamFailureSurfaced ==
  ppc = "done"
  => ( /\ Len(responses) = 1
       /\ ~escaped
       /\ UpstreamFailed(endpoint, upstream)
          => (~responses[1].success /\ responses[1].message) )

\* C19, the part that holds: one response, nothing raised, and
\* {success:false, message} for a network error, a non-2xx status and a
\* body that does not parse.
C19_OneResponseNoThrow ==
  ppc = "done"
  => ( /\ Len(responses) = 1
       /\ ~escaped
       /\ ( \/ upstream.kind = "network_error"
            \/ upstream.status # 200
            \/ upstream.body.form \in {"text", "sse_bad", "json_null"} )
          => (~responses[1].success /\ responses[1].message) )

Participant(uid, roomId) == \E k \in 1..Len(Split(roomId)) : Split(roomId)[k] = uid

\* User u registered on c1 and afterwards on c2, and a participant of the
\* room other than u has just sent a message to the room.
Superseded(u, c1, c2) ==
  /\ last.type = "message:send"
  /\ c1 # c2
  /\ WasOpen(c1) /\ WasOpen(c2)
  /\ MapGetOr(pre.userSockets, c1, Undefined) = u
  /\ MapHas(pre.connectedUsers, u)
  /\ MapGet(pre.connectedUsers, u).socketId = c2
  /\ last.arg.senderId # u
  /\ Truthy(last.arg.roomId)
  /\ Participant(u, last.arg.roomId)
  /\ Participant(last.arg.senderId, last.arg.roomId)

EntryOf(users, u) == {e \in users : e.key = u}

\* The connection of the event just handled supplied id u in a user:join.
Supplied(u) ==
  \/ last.type = "user:join" /\ JoinedId(last.arg) = u
  \/ MapHas(pre.userSockets, last.conn) /\ MapGet(pre.userSockets, last.conn) = u

\* C23: an event from one connection changes no other connection's room
\* membership and no registry entry of an id that connection did not
\* supply. When the handler raises the process ends, and with it every
\* membership and every entry.
C23_IsolationBetweenConnections ==
  last.type \in {"user:join", "chat:join", "chat:leave", "message:send",
                 "user:typing", "message:read", "disconnect"}
  => ( /\ \A d \in Conns \ {last.conn} :
            IF up THEN rooms[d] = pre.rooms[d] ELSE pre.rooms[d] = {}
       /\ \A u \in Users \cup {Undefined} :
            \/ Supplied(u)
            \/ IF up THEN EntryOf(connectedUsers, u) = EntryOf(pre.connectedUsers, u)
                     ELSE EntryOf(pre.connectedUsers, u) = {} )

\* C23, the part that holds: a handler that returns without raising leaves
\* other connections' membership and the entries of ids the connection did
\* not supply as they were.
C23_IsolationWhileUp ==
  (up /\ last.type # "start")
  => ( /\ \A d \in Conns \ {last.conn} : rooms[d] = pre.rooms[d]
       /\ \A u \in Users \cup {Undefined} :
            Supplied(u) \/ EntryOf(connectedUsers, u) = EntryOf(pre.connectedUsers, u) )

\* C24: message:receive goes only to members of the room and to the
\* registered connections of the room's participants; user:typing and
\* message:read go only to members of the room.
C24_DeliveryScope ==
  /\ (last.type = "message:send" /\ Truthy(last.arg.roomId))
     => \A i \in 1..Len(out) :
          /\ out[i].event = "message:receive"
          /\ \A d \in out[i].to :
               \/ last.arg.roomId \in pre.rooms[d]
               \/ \E uid \in Users :
                    /\ Participant(uid, last.arg.roomId)
                    /\ MapHas(pre.connectedUsers, uid)
                    /\ MapGet(pre.connectedUsers, uid).socketId = d
  /\ last.type \in {"user:typing", "message:read"}
     => \A i \in 1..Len(out) :
          /\ out[i].event = last.type
          /\ \A d \in out[i].to : last.arg.chatId \in pre.rooms[d]

C24_Witness ==
  /\ last.type = "user:typing"
  /\ \E d \in Sockets \ {last.conn} : Received(d, "user:typing") # {}
  /\ \E d \in Sockets \ {last.conn} :
       /\ last.arg.chatId \notin pre.rooms[d]
       /\ Received(d, "user:typing") = {}

\* C25: closing a connection that never sent user:join broadcasts nothing
\* and leaves both registry maps as they were.
C25_UnjoinedCloseIsSilent ==
  (last.type = "disconnect" /\ ~MapHas(pre.userSockets, last.conn))
  => ( /\ out = <<>>
       /\ connectedUsers = pre.connectedUsers
       /\ userSockets = pre.userSockets )

C25_Witness ==
  /\ last.type = "disconnect"
  /\ ~MapHas(pre.userSockets, last.conn)
  /\ Sockets # {}
  /\ connectedUsers # {}
  /\ out = <<>>

\* C26: the messages list never holds two entries with one id, and a
\* message:receive or sendMessage whose id is already in the list leaves
\* the list as it was.
C26_MessagesUniqueById ==
  /\ \A i \in 1..Len(messages), j \in 1..Len(messages) :
        messages[i].id = messages[j].id => i = j
  /\ (clast.op \in {"message:receive", "sendMessage"}
       /\ HasId(cpre.messages, clast.arg.id))
     => messages = cpre.messages

C26_Witness ==
  /\ clast.op = "message:receive"
  /\ HasId(cpre.messages, clast.arg.id)
  /\ \A i \in 1..Len(cpre.messages) : cpre.messages[i] # clast.arg
  /\ Len(messages) = 2
  /\ messages = cpre.messages

\* The message is an entry of the list.
Holds(list, message) == \E i \in 1..Len(list) : list[i] = message

\* C27 as stated: sendMessage without a connected socket emits nothing and
\* leaves the list unchanged; with a connected socket it emits message:send
\* once and the list then holds the message.
C27_SendInsertsMessage ==
  clast.op = "sendMessage"
  => IF cpre.socketRef = "connected"
     THEN /\ sent = <<ClientEmit("message:send", clast.arg)>>
          /\ Holds(messages, clast.arg)
     ELSE /\ sent = <<>>
          /\ messages = cpre.messages

\* C27 amended: with a connected socket the message is emitted once and
\* appended to the list unless the list already holds an entry with the
\* same id, in which case the list is unchanged.
C27_SendInsertsUnlessIdKnown ==
  clast.op = "sendMessage"
  => IF cpre.socketRef = "connected"
     THEN /\ sent = <<ClientEmit("message:send", clast.arg)>>
          /\ messages = (IF HasId(cpre.messages, clast.arg.id)
                         THEN cpre.messages
                         ELSE Append(cpre.messages, clast.arg))
     ELSE /\ sent = <<>>
          /\ messages = cpre.messages

C27_Witness ==
  /\ clast.op = "sendMessage"
  /\ cpre.socketRef = "connected"
  /\ cpre.messages # <<>>
  /\ ~HasId(cpre.messages, clast.arg.id)
  /\ messages[Len(messages)] = clast.arg
  /\ Len(sent) = 1

\* C29: a message:receive for the room in currentRoomRef leaves the unread
\* counts alone, one for another room adds exactly 1 to that room's count,
\* and joinRoom(r) with a connected socket and markRoomRead(r) set r's
\* count to zero and change no other count.
C29_UnreadTracking ==
  /\ clast.op = "message:receive"
     => unreadCounts =
          (IF clast.arg.roomId = cpre.currentRoomRef
           THEN cpre.unreadCounts
           ELSE [cpre.unreadCounts EXCEPT ![clast.arg.roomId] = @ + 1])
  /\ ( \/ clast.op = "markRoomRead"
       \/ clast.op = "joinRoom" /\ cpre.socketRef = "connected" )
     => unreadCounts = [cpre.unreadCounts EXCEPT ![clast.arg] = 0]

C29_Witness ==
  /\ clast.op = "message:receive"
  /\ cpre.currentRoomRef \in RoomIds
  /\ clast.arg.roomId # cpre.currentRoomRef
  /\ cpre.unreadCounts[clast.arg.roomId] = 1
  /\ unreadCounts[clast.arg.roomId] = 2
  /\ unreadCounts[cpre.currentRoomRef] = 0

\* ---------------------------------------------------------------- C28
\* the rooms whose chat:leave the provider has emitted and the server has
\* not handled yet
LeavesInFlight == {wire[i].payload : i \in {k \in 1..Len(wire) : wire[k].event = "chat:leave"}}

\* C28: whatever joinRoom and leaveRoom calls, transport drops and
\* reconnects there were, the server holds at most one room for the
\* provider's current socket, and a room it holds is the one in
\* currentRoomRef, or one whose chat:leave is still on the wire; with
\* nothing on the wire the rooms held are a subset of {currentRoomRef}.
C28_ServerRoomsFollowCurrentRoom ==
  socketId # 0 =>
    /\ Cardinality(rooms[socketId]) <= 1
    /\ rooms[socketId] \subseteq ({currentRoomRef} \cup LeavesInFlight)
    /\ wire = <<>> => rooms[socketId] \subseteq {currentRoomRef}

\* The provider switched from one room to the other, the server has handled
\* the chat:leave and the chat:join, and holds exactly the new room.
C28_Witness ==
  /\ socketId # 0
  /\ wire = <<>>
  /\ clast.op = "joinRoom"
  /\ cpre.currentRoomRef \in RoomIds \ {currentRoomRef}
  /\ last = [type |-> "chat:join", conn |-> socketId, arg |-> currentRoomRef]
  /\ rooms[socketId] = {currentRoomRef}

\* ---------------------------------------------------------------- C30
RosterIds == {onlineUsers[i].id : i \in 1..Len(onlineUsers)}

RegistryIds == {e.key : e \in connectedUsers}

\* The server has registered the provider's socket, so users:list was sent
\* to it, and the listeners have run for everything sent to it since.
RosterSettled ==
  /\ socketId # 0
  /\ socketRef = "connected"
  /\ MapHas(userSockets, socketId)
  /\ inbox = <<>>

\* C30: once the provider has received users:list and processed every later
\* user:online and user:offline in order, onlineUsers holds exactly the ids
\* of the server's registry other than the provider's own user: none
\* missing, none departed, none twice, never the provider's own.
C30_RosterConverges ==
  RosterSettled =>
    /\ RosterIds = RegistryIds \ {user}
    /\ \A i, j \in 1..Len(onlineUsers) : onlineUsers[i].id = onlineUsers[j].id => i = j
    /\ user \notin RosterIds

\* What does hold: the ids of the other users converge, and no id is listed
\* twice.
C30_OtherUsersConverge ==
  RosterSettled =>
    /\ RosterIds \ {user} = RegistryIds \ {user}
    /\ \A i, j \in 1..Len(onlineUsers) : onlineUsers[i].id = onlineUsers[j].id => i = j

====
